---- MODULE Spec2Model ----
(***************************************************************************)
(* Model of netlify/functions/payment.js: the in-memory billing store      *)
(* (customers, paymentMethods, recurringPayments, payments, idCounter)     *)
(* and the request handler, one action per route.  The handler is an       *)
(* async function without any await, so each request runs to completion    *)
(* before the next one starts: a request is one atomic step.               *)
(*                                                                         *)
(* Conventions of the model                                                *)
(*  - a JSON string of digits is a sequence of digits, "1234" is           *)
(*    <<1,2,3,4>>; the empty string and an absent field are <<>>/""/0,     *)
(*    all of which are falsy in the handler's `!field` tests;              *)
(*  - a date string "YYYY-MM-DD" is the tuple <<YYYY, MM, DD>>;            *)
(*  - a Date object is [valid, day]: day is the time value in whole days   *)
(*    since 1970-01-01 (every date string parsed here is a date-only ISO   *)
(*    string, i.e. UTC midnight), valid = FALSE is Invalid Date (NaN);     *)
(*  - the local time zone of the function runtime is UTC, so getMonth /    *)
(*    setMonth and toISOString agree on the calendar day;                  *)
(*  - created_at (the wall clock) is left out of the stored records: ids   *)
(*    are handed out in creation order and stand for it.                   *)
(***************************************************************************)
EXTENDS Integers, Sequences, FiniteSets, TLC

VARIABLES customers, paymentMethods, recurringPayments, payments, idCounter,
          request, response

vars == <<customers, paymentMethods, recurringPayments, payments, idCounter,
          request, response>>

store == <<customers, paymentMethods, recurringPayments, payments, idCounter>>

(* Largest id the model hands out. *)
MaxId == 4

MONTHLY_AMOUNT == 3500

-----------------------------------------------------------------------------
(* JavaScript helpers *)

Min(a, b) == IF a < b THEN a ELSE b
Max(a, b) == IF a > b THEN a ELSE b

(* Array.prototype.slice(0, end) / String.prototype.slice(0, end) *)
SliceTo(s, end) ==
  LET k == IF end < 0 THEN Max(Len(s) + end, 0) ELSE Min(end, Len(s))
  IN  SubSeq(s, 1, k)

(* String.prototype.slice(-n) *)
SliceLast(s, n) == SubSeq(s, Max(Len(s) - n, 0) + 1, Len(s))

-----------------------------------------------------------------------------
(* ECMAScript Date arithmetic, in whole days *)

InLeapYear(y) == (y % 4 = 0 /\ y % 100 # 0) \/ y % 400 = 0

(* DayFromYear of the language specification *)
DayFromYear(y) ==
  365 * (y - 1970) + ((y - 1969) \div 4) - ((y - 1901) \div 100)
    + ((y - 1601) \div 400)

(* mn is a 0-based month number *)
DaysInMonth(y, mn) ==
  IF mn = 1 THEN (IF InLeapYear(y) THEN 29 ELSE 28)
  ELSE IF mn \in {3, 5, 8, 10} THEN 30 ELSE 31

RECURSIVE MonthStart(_, _)
MonthStart(y, mn) ==
  IF mn = 0 THEN 0 ELSE MonthStart(y, mn - 1) + DaysInMonth(y, mn - 1)

(* MakeDay(year, month, date): month and date may lie outside their range *)
MakeDay(year, month, date) ==
  LET ym == year + (month \div 12)
      mn == month % 12
  IN  DayFromYear(ym) + MonthStart(ym, mn) + date - 1

YearFromTime(t) ==
  CHOOSE y \in (1970 + (t \div 366)) .. (1970 + (t \div 365)) :
    DayFromYear(y) <= t /\ t < DayFromYear(y + 1)

DayWithinYear(t) == t - DayFromYear(YearFromTime(t))

MonthFromTime(t) ==
  LET y == YearFromTime(t)
  IN  CHOOSE mn \in 0 .. 11 :
        /\ MonthStart(y, mn) <= DayWithinYear(t)
        /\ DayWithinYear(t) < MonthStart(y, mn) + DaysInMonth(y, mn)

DateFromTime(t) ==
  DayWithinYear(t) - MonthStart(YearFromTime(t), MonthFromTime(t)) + 1

InvalidDate == [valid |-> FALSE, day |-> 0]

(* a date-only ISO string names a day of the calendar *)
IsIsoDate(s) ==
  /\ Len(s) = 3
  /\ s[1] >= 1970
  /\ s[2] \in 1 .. 12
  /\ s[3] \in 1 .. DaysInMonth(s[1], s[2] - 1)

(* new Date(start_date) *)
NewDate(s) ==
  IF IsIsoDate(s) THEN [valid |-> TRUE, day |-> MakeDay(s[1], s[2] - 1, s[3])]
  ELSE InvalidDate

(* date.setMonth(date.getMonth() + 1) *)
SetNextMonth(date) ==
  IF date.valid
  THEN [valid |-> TRUE,
        day |-> MakeDay(YearFromTime(date.day), MonthFromTime(date.day) + 1,
                        DateFromTime(date.day))]
  ELSE InvalidDate

(* date.toISOString().split('T')[0], for a valid date *)
ToISODate(date) ==
  <<YearFromTime(date.day), MonthFromTime(date.day) + 1, DateFromTime(date.day)>>

(* date.toLocaleDateString('he-IL'): day.month.year *)
ToLocaleDate(date) ==
  <<DateFromTime(date.day), MonthFromTime(date.day) + 1, YearFromTime(date.day)>>

(* const start = new Date(start_date); nextPaymentDate = start + 1 month *)
NextPaymentDate(start_date) == SetNextMonth(NewDate(start_date))

-----------------------------------------------------------------------------
(* Requests the model sends *)

(* "1234", the documentation's valid number, and the same with a bad check digit *)
ShortCard == <<1, 2, 3, 4>>
GoodCard == <<4, 5, 3, 2, 0, 1, 5, 1, 1, 2, 8, 3, 0, 3, 6, 6>>
BadCard == <<4, 5, 3, 2, 0, 1, 5, 1, 1, 2, 8, 3, 0, 3, 6, 7>>

(* ids a caller names; 0 is an absent id *)
RecurringIds == 0 .. MaxId

(* limit: 0 is an absent limit (or a limit of 0) *)
HistoryBodies ==
  { [customer_id |-> 0, limit |-> 0],
    [customer_id |-> 1, limit |-> 0],
    [customer_id |-> 1, limit |-> 1],
    [customer_id |-> 1, limit |-> -1],
    [customer_id |-> 2, limit |-> 0] }

Init ==
  /\ customers = <<>>
  /\ paymentMethods = <<>>
  /\ recurringPayments = <<>>
  /\ payments = <<>>
  /\ idCounter = 1
  /\ request = [path |-> "", method |-> "", body |-> [none |-> 0]]
  /\ response = [statusCode |-> 0, body |-> [none |-> 0]]

Reply(code, body) == [statusCode |-> code, body |-> body]

MissingFields == [success |-> FALSE, error |-> "Missing required fields"]

Post(path, body) == [path |-> path, method |-> "POST", body |-> body]

-----------------------------------------------------------------------------
(* POST /register *)

RegisterBody == [parent_name |-> "Dana", phone |-> "050", child_name |-> "Noa"]

(* the documented request, and the same with one required field absent *)
RegisterBodies ==
  { RegisterBody,
    [RegisterBody EXCEPT !.parent_name = ""],
    [RegisterBody EXCEPT !.phone = ""],
    [RegisterBody EXCEPT !.child_name = ""] }

(* the optional fields are not sent, so each is stored as '' *)
NewCustomer(b, id) ==
  [id |-> id, parent_name |-> b.parent_name, phone |-> b.phone, email |-> "",
   child_name |-> b.child_name, child_age |-> "", allergies |-> "",
   notes |-> "", status |-> "active"]

(* a register that forgets to test child_name *)
RegisterUncheckedChild(b) ==
  /\ request' = Post("/register", b)
  /\ IF b.parent_name = "" \/ b.phone = ""
     THEN /\ response' = Reply(400, MissingFields)
          /\ UNCHANGED store
     ELSE /\ idCounter <= MaxId
          /\ idCounter' = idCounter + 1
          /\ customers' = Append(customers, NewCustomer(b, idCounter))
          /\ response' = Reply(200, [success |-> TRUE, customer_id |-> idCounter])
          /\ UNCHANGED <<paymentMethods, recurringPayments, payments>>

Register(b) ==
  /\ request' = Post("/register", b)
  /\ IF b.parent_name = "" \/ b.phone = "" \/ b.child_name = ""
     THEN /\ response' = Reply(400, MissingFields)
          /\ UNCHANGED store
     ELSE /\ idCounter <= MaxId
          /\ idCounter' = idCounter + 1
          /\ customers' = Append(customers, NewCustomer(b, idCounter))
          /\ response' = Reply(200, [success |-> TRUE, customer_id |-> idCounter])
          /\ UNCHANGED <<paymentMethods, recurringPayments, payments>>

(* GET /config *)
Config ==
  /\ request' = [path |-> "/config", method |-> "GET", body |-> [none |-> 0]]
  /\ response' = Reply(200, [monthly_amount |-> MONTHLY_AMOUNT, currency |-> "ILS",
                             supported_payment_types |-> <<"credit_card", "standing_order">>,
                             frequencies |-> <<"monthly">>])
  /\ UNCHANGED store

-----------------------------------------------------------------------------
(* POST /add-credit-card *)

CreditCardBody ==
  [customer_id |-> 1, card_number |-> GoodCard, card_holder_name |-> "Dana",
   expiry_month |-> <<1, 2>>, expiry_year |-> <<2, 0, 2, 5>>, cvv |-> <<1, 2, 3>>]

CreditCardBodies ==
  { CreditCardBody,
    [CreditCardBody EXCEPT !.customer_id = 0],
    [CreditCardBody EXCEPT !.card_number = <<>>],
    [CreditCardBody EXCEPT !.card_holder_name = ""] }

CardMethod(b, id) ==
  [id |-> id, customer_id |-> b.customer_id, payment_type |-> "credit_card",
   card_number_last4 |-> SliceLast(b.card_number, 4),
   card_holder_name |-> b.card_holder_name,
   card_expiry_month |-> b.expiry_month, card_expiry_year |-> b.expiry_year,
   is_default |-> TRUE, is_active |-> TRUE]

AddCreditCard(b) ==
  /\ request' = Post("/add-credit-card", b)
  /\ IF \/ b.customer_id = 0 \/ b.card_number = <<>> \/ b.card_holder_name = ""
        \/ b.expiry_month = <<>> \/ b.expiry_year = <<>>
     THEN /\ response' = Reply(400, MissingFields)
          /\ UNCHANGED store
     ELSE /\ idCounter <= MaxId
          /\ idCounter' = idCounter + 1
          /\ paymentMethods' = Append(paymentMethods, CardMethod(b, idCounter))
          /\ response' = Reply(200, [success |-> TRUE, method_id |-> idCounter,
                                     last4 |-> SliceLast(b.card_number, 4),
                                     message |-> "Credit card added successfully"])
          /\ UNCHANGED <<customers, recurringPayments, payments>>

(* the card numbers of the documentation's examples, for customers 1 and 2 *)
CardNumberBodies ==
  { CreditCardBody,
    [CreditCardBody EXCEPT !.card_number = ShortCard],
    [CreditCardBody EXCEPT !.customer_id = 2, !.card_number = BadCard],
    [CreditCardBody EXCEPT !.card_number = <<>>] }

(* POST /add-standing-order *)

StandingOrderBody ==
  [customer_id |-> 1, bank_code |-> <<0, 0, 1>>, branch_code |-> <<1, 2, 3>>,
   account_number |-> <<1, 2, 3, 4, 5, 6>>, account_holder_name |-> "Dana"]

StandingOrderBodies ==
  { StandingOrderBody,
    [StandingOrderBody EXCEPT !.customer_id = 0],
    [StandingOrderBody EXCEPT !.account_number = <<>>] }

StandingOrderMethod(b, id) ==
  [id |-> id, customer_id |-> b.customer_id, payment_type |-> "standing_order",
   bank_code |-> b.bank_code, branch_code |-> b.branch_code,
   account_number |-> b.account_number,
   account_holder_name |-> b.account_holder_name,
   is_default |-> TRUE, is_active |-> TRUE]

AddStandingOrder(b) ==
  /\ request' = Post("/add-standing-order", b)
  /\ IF \/ b.customer_id = 0 \/ b.bank_code = <<>> \/ b.branch_code = <<>>
        \/ b.account_number = <<>> \/ b.account_holder_name = ""
     THEN /\ response' = Reply(400, MissingFields)
          /\ UNCHANGED store
     ELSE /\ idCounter <= MaxId
          /\ idCounter' = idCounter + 1
          /\ paymentMethods' = Append(paymentMethods, StandingOrderMethod(b, idCounter))
          /\ response' = Reply(200, [success |-> TRUE, method_id |-> idCounter,
                                     message |-> "Standing order added successfully"])
          /\ UNCHANGED <<customers, recurringPayments, payments>>

-----------------------------------------------------------------------------
(* POST /create-recurring *)

(* amount, frequency and end_date absent: 0, "" and <<>> *)
RecurringBody ==
  [customer_id |-> 1, payment_method_id |-> 1, amount |-> 0,
   start_date |-> <<2024, 1, 31>>, frequency |-> "", end_date |-> <<>>]

(* <<2024, 13, 1>> is "2024-13-01", which does not parse *)
RecurringBodies ==
  { RecurringBody,
    [RecurringBody EXCEPT !.customer_id = 2],
    [RecurringBody EXCEPT !.payment_method_id = 2],
    [RecurringBody EXCEPT !.amount = 3000, !.start_date = <<2024, 2, 15>>,
                          !.frequency = "monthly"],
    [RecurringBody EXCEPT !.amount = -5, !.end_date = <<2024, 1, 1>>],
    [RecurringBody EXCEPT !.start_date = <<2024, 13, 1>>],
    [RecurringBody EXCEPT !.customer_id = 0],
    [RecurringBody EXCEPT !.payment_method_id = 0],
    [RecurringBody EXCEPT !.start_date = <<>>] }

(* amount || MONTHLY_AMOUNT *)
AmountOrDefault(amount) == IF amount = 0 THEN MONTHLY_AMOUNT ELSE amount

(* the agreement; null is <<>> *)
Recurring(b, id) ==
  [id |-> id, customer_id |-> b.customer_id,
   payment_method_id |-> b.payment_method_id,
   amount |-> AmountOrDefault(b.amount), currency |-> "ILS",
   frequency |-> IF b.frequency = "" THEN "monthly" ELSE b.frequency,
   start_date |-> b.start_date, end_date |-> b.end_date,
   next_payment_date |-> ToISODate(NextPaymentDate(b.start_date)),
   status |-> "active"]

(* a first payment record that falls due a month late *)
FirstPaymentDueNextMonth(b, id) ==
  [id |-> id, customer_id |-> b.customer_id,
   payment_method_id |-> b.payment_method_id,
   amount |-> AmountOrDefault(b.amount), currency |-> "ILS",
   payment_type |-> "recurring", status |-> "pending",
   due_date |-> ToISODate(NextPaymentDate(b.start_date)),
   description |-> ToLocaleDate(NextPaymentDate(b.start_date))]

(* a first payment record created as already paid *)
FirstPaymentCompleted(b, id) ==
  [id |-> id, customer_id |-> b.customer_id,
   payment_method_id |-> b.payment_method_id,
   amount |-> AmountOrDefault(b.amount), currency |-> "ILS",
   payment_type |-> "recurring", status |-> "completed",
   due_date |-> b.start_date,
   description |-> ToLocaleDate(NextPaymentDate(b.start_date))]

(* a first payment record that takes its agreement's id *)
FirstPaymentSharedId(b, id) ==
  [id |-> id - 1, customer_id |-> b.customer_id,
   payment_method_id |-> b.payment_method_id,
   amount |-> AmountOrDefault(b.amount), currency |-> "ILS",
   payment_type |-> "recurring", status |-> "pending",
   due_date |-> b.start_date,
   description |-> ToLocaleDate(NextPaymentDate(b.start_date))]

(* the first payment record *)
FirstPayment(b, id) ==
  [id |-> id, customer_id |-> b.customer_id,
   payment_method_id |-> b.payment_method_id,
   amount |-> AmountOrDefault(b.amount), currency |-> "ILS",
   payment_type |-> "recurring", status |-> "pending",
   due_date |-> b.start_date,
   description |-> ToLocaleDate(NextPaymentDate(b.start_date))]

CreateRecurring(b) ==
  /\ request' = Post("/create-recurring", b)
  /\ IF b.customer_id = 0 \/ b.payment_method_id = 0 \/ b.start_date = <<>>
     THEN /\ response' = Reply(400, MissingFields)
          /\ UNCHANGED store
     ELSE IF ~NextPaymentDate(b.start_date).valid
     THEN (* id: idCounter++ has run when toISOString() throws RangeError *)
          /\ idCounter <= MaxId
          /\ idCounter' = idCounter + 1
          /\ response' = Reply(500, [error |-> "Invalid time value"])
          /\ UNCHANGED <<customers, paymentMethods, recurringPayments, payments>>
     ELSE /\ idCounter + 1 <= MaxId
          /\ idCounter' = idCounter + 2
          /\ recurringPayments' = Append(recurringPayments, Recurring(b, idCounter))
          /\ payments' = Append(payments, FirstPayment(b, idCounter + 1))
          /\ response' = Reply(200, [success |-> TRUE, recurring_id |-> idCounter,
                                     amount |-> AmountOrDefault(b.amount)])
          /\ UNCHANGED <<customers, paymentMethods>>

-----------------------------------------------------------------------------
(* POST /payment-methods *)

(* the redacted view: {...m, card_number, account_number}; undefined is <<>> *)
Redacted(m) ==
  IF m.payment_type = "credit_card"
  THEN [view |-> m, card_number |-> m.card_number_last4, account_number |-> <<>>]
  ELSE [view |-> m, card_number |-> <<>>,
        account_number |-> SliceLast(m.account_number, 4)]

ActiveMethods(customer_id) ==
  LET Mine(m) == m.customer_id = customer_id /\ m.is_active
      found == SelectSeq(paymentMethods, Mine)
  IN  [i \in 1 .. Len(found) |-> Redacted(found[i])]

PaymentMethods(b) ==
  /\ request' = Post("/payment-methods", b)
  /\ IF b.customer_id = 0
     THEN response' = Reply(400, [success |-> FALSE, error |-> "customer_id required"])
     ELSE response' = Reply(200, [success |-> TRUE,
                                  payment_methods |-> ActiveMethods(b.customer_id)])
  /\ UNCHANGED store

(* POST /payment-history *)

(* payments.filter(p => p.customer_id === customer_id).slice(0, limit || 12) *)
History(customer_id, limit) ==
  LET Mine(p) == p.customer_id = customer_id
  IN  SliceTo(SelectSeq(payments, Mine), IF limit = 0 THEN 12 ELSE limit)

PaymentHistory(b) ==
  /\ request' = Post("/payment-history", b)
  /\ IF b.customer_id = 0
     THEN response' = Reply(400, [success |-> FALSE, error |-> "customer_id required"])
     ELSE response' = Reply(200, [success |-> TRUE,
                                  payments |-> History(b.customer_id, b.limit)])
  /\ UNCHANGED store

(* POST /cancel-recurring *)

(* a cancel that flips the status back and forth *)
CancelledToggle(recurring_id) ==
  [i \in 1 .. Len(recurringPayments) |->
     IF recurringPayments[i].id = recurring_id
     THEN [recurringPayments[i] EXCEPT
             !.status = IF @ = "cancelled" THEN "active" ELSE "cancelled"]
     ELSE recurringPayments[i]]

(* a cancel that does not look at the id *)
CancelledEvery(recurring_id) ==
  [i \in 1 .. Len(recurringPayments) |->
     [recurringPayments[i] EXCEPT !.status = "cancelled"]]

(* recurringPayments.find(r => r.id === recurring_id), then status = 'cancelled' *)
Cancelled(recurring_id) ==
  [i \in 1 .. Len(recurringPayments) |->
     IF recurringPayments[i].id = recurring_id
     THEN [recurringPayments[i] EXCEPT !.status = "cancelled"]
     ELSE recurringPayments[i]]

CancelRecurring(b) ==
  /\ request' = Post("/cancel-recurring", b)
  /\ IF b.recurring_id = 0
     THEN /\ response' = Reply(400, [success |-> FALSE, error |-> "recurring_id required"])
          /\ UNCHANGED store
     ELSE /\ recurringPayments' = Cancelled(b.recurring_id)
          /\ response' = Reply(200, [success |-> TRUE,
                                     message |-> "Recurring payment cancelled"])
          /\ UNCHANGED <<customers, paymentMethods, payments, idCounter>>

-----------------------------------------------------------------------------
(* The rest of the handler *)

(* OPTIONS: the CORS preflight returns before the body is read *)
Preflight ==
  /\ request' = [path |-> "/register", method |-> "OPTIONS", body |-> [none |-> 0]]
  /\ response' = Reply(200, [none |-> 0])
  /\ UNCHANGED store

(* no route matches: an unknown path, or a known path with the other method *)
NotFound(path) ==
  /\ request' = [path |-> path, method |-> "GET", body |-> [none |-> 0]]
  /\ response' = Reply(404, [error |-> "Not found"])
  /\ UNCHANGED store

(* the lifecycle requests of BILLING.md and of the scheduler, none of which *)
(* the handler routes                                                       *)
UnroutedPaths == {"/pause-recurring", "/resume-recurring", "/roll-forward"}

(* a POST to a path without a route falls through to the 404 *)
Unrouted(path, b) ==
  /\ request' = Post(path, b)
  /\ response' = Reply(404, [error |-> "Not found"])
  /\ UNCHANGED store

(* JSON.parse(event.body) throws on a malformed body *)
MalformedBody(path) ==
  /\ request' = [path |-> path, method |-> "POST", body |-> [malformed |-> 1]]
  /\ response' = Reply(500, [error |-> "Unexpected token"])
  /\ UNCHANGED store

(* one request, its body drawn from the bodies the callers send *)
Handle(cards, recurrings) ==
  \/ \E b \in RegisterBodies : Register(b)
  \/ Config
  \/ \E b \in cards : AddCreditCard(b)
  \/ \E b \in StandingOrderBodies : AddStandingOrder(b)
  \/ \E b \in recurrings : CreateRecurring(b)
  \/ \E b \in [customer_id : 0 .. 2] : PaymentMethods(b)
  \/ \E b \in HistoryBodies : PaymentHistory(b)
  \/ \E b \in [recurring_id : RecurringIds] : CancelRecurring(b)
  \/ Preflight
  \/ NotFound("/pause-recurring")
  \/ \E path \in UnroutedPaths : Unrouted(path, [recurring_id |-> 1])
  \/ MalformedBody("/register")

Next == Handle(CreditCardBodies, RecurringBodies)

Spec == Init /\ [][Next]_vars

(* the same handler, its callers trying card numbers rather than agreements *)
NextVault ==
  Handle(CardNumberBodies,
         { RecurringBody, [RecurringBody EXCEPT !.start_date = <<2024, 13, 1>>],
           [RecurringBody EXCEPT !.payment_method_id = 0] })

SpecVault == Init /\ [][NextVault]_vars

-----------------------------------------------------------------------------
(* What the last request was, read off request and response *)

Succeeded(path) ==
  /\ request.path = path
  /\ request.method = "POST"
  /\ response.statusCode = 200

CorrespondingPayment(r, p) ==
  /\ p.payment_type = "recurring"
  /\ p.customer_id = r.customer_id
  /\ p.payment_method_id = r.payment_method_id
  /\ p.due_date = r.start_date

(* C1: every stored agreement has a first payment record (same customer id  *)
(* and payment method id, due_date equal to the agreement's start_date) and *)
(* every recurring payment record has an agreement, in every reachable      *)
(* state, also after a create-recurring request that failed.                *)
AgreementAndFirstPaymentTogether ==
  /\ \A i \in DOMAIN recurringPayments :
       \E j \in DOMAIN payments :
         CorrespondingPayment(recurringPayments[i], payments[j])
  /\ \A j \in DOMAIN payments :
       payments[j].payment_type = "recurring" =>
         \E i \in DOMAIN recurringPayments :
           CorrespondingPayment(recurringPayments[i], payments[j])

(* an agreement is stored and the last create-recurring request threw *)
FailedCreateAfterAgreement ==
  /\ request.path = "/create-recurring"
  /\ response.statusCode = 500
  /\ Len(recurringPayments) >= 1
  /\ Len(payments) >= 1

(* one calendar month later, the day clamped to the target month's length *)
AdvanceClamped(d) ==
  LET y == IF d[2] = 12 THEN d[1] + 1 ELSE d[1]
      m == IF d[2] = 12 THEN 1 ELSE d[2] + 1
  IN  <<y, m, Min(d[3], DaysInMonth(y, m - 1))>>

(* C2: the next_payment_date stored for an agreement is its start date plus *)
(* one calendar month, the day of the month kept, or clamped to the last    *)
(* day of the target month when that month is shorter; it never runs over   *)
(* into the month after.                                                    *)
NextDueDateClamped ==
  \A i \in DOMAIN recurringPayments :
    recurringPayments[i].next_payment_date
      = AdvanceClamped(recurringPayments[i].start_date)

(* C3: a cancel request that names an agreement returns success and leaves  *)
(* that agreement cancelled whatever its state was; when it was cancelled   *)
(* already, the store is left exactly as it was (cancel is idempotent).     *)
CancelIdempotent ==
  [][(request'.path = "/cancel-recurring" /\ request'.body.recurring_id # 0) =>
       /\ response'.statusCode = 200
       /\ response'.body.success
       /\ Len(recurringPayments') = Len(recurringPayments)
       /\ \A i \in DOMAIN recurringPayments :
            recurringPayments[i].id = request'.body.recurring_id =>
              /\ recurringPayments'[i].status = "cancelled"
              /\ recurringPayments[i].status = "cancelled" => store' = store]_vars

(* the last request cancelled a stored agreement, another one is still active *)
CancelledOneOfTwo ==
  /\ Succeeded("/cancel-recurring")
  /\ \E i, j \in DOMAIN recurringPayments :
       /\ recurringPayments[i].id = request.body.recurring_id
       /\ recurringPayments[i].status = "cancelled"
       /\ recurringPayments[j].status = "active"

(* C4: a customer has at most one default payment method per instrument     *)
(* kind, also after a second instrument of the same kind was added.         *)
OneDefaultPerKind ==
  \A i, j \in DOMAIN paymentMethods :
    ( /\ i # j
      /\ paymentMethods[i].customer_id = paymentMethods[j].customer_id
      /\ paymentMethods[i].payment_type = paymentMethods[j].payment_type
      /\ paymentMethods[i].is_default )
    => ~paymentMethods[j].is_default

(* C5: no stored payment method holds a CVV or more than the last 4 digits  *)
(* of a card number or of a bank account number.                            *)
OnlyLast4Stored ==
  \A i \in DOMAIN paymentMethods :
    LET m == paymentMethods[i]
    IN  /\ "cvv" \notin DOMAIN m
        /\ "card_number" \notin DOMAIN m
        /\ m.payment_type = "credit_card" => Len(m.card_number_last4) <= 4
        /\ m.payment_type = "standing_order" => Len(m.account_number) <= 4

(* the customer's records, most recent first *)
RECURSIVE Reverse(_)
Reverse(s) == IF s = <<>> THEN <<>> ELSE Append(Reverse(Tail(s)), Head(s))

RecordsOf(customer_id) ==
  LET Mine(p) == p.customer_id = customer_id
  IN  Reverse(SelectSeq(payments, Mine))

(* C6: the records a history request returns are ordered most recent first  *)
(* (a record created later, i.e. with the larger id, comes earlier) and are *)
(* the customer's most recent ones.                                         *)
HistoryMostRecentFirst ==
  Succeeded("/payment-history") =>
    LET h == response.body.payments
    IN  /\ \A i, j \in DOMAIN h : i < j => h[i].id > h[j].id
        /\ h = SubSeq(RecordsOf(request.body.customer_id), 1, Len(h))

(* the cap a request asks for: 12 when no limit is given *)
Cap(limit) == IF limit = 0 THEN 12 ELSE Max(limit, 0)

(* C7: a history request returns no more records than its limit (12 when no *)
(* limit is given), only records of the customer it names, and an empty     *)
(* sequence with success for a customer without records.                    *)
HistoryWithinLimit ==
  (request.path = "/payment-history" /\ request.body.customer_id # 0) =>
    /\ response.statusCode = 200
    /\ response.body.success
    /\ Len(response.body.payments) <= Cap(request.body.limit)
    /\ \A i \in DOMAIN response.body.payments :
         response.body.payments[i].customer_id = request.body.customer_id
    /\ RecordsOf(request.body.customer_id) = <<>> => response.body.payments = <<>>

(* C8: create-recurring succeeds only when payment_method_id names a stored *)
(* payment method that belongs to customer_id and is active.                *)
AgreementNeedsOwnActiveMethod ==
  Succeeded("/create-recurring") =>
    \E i \in DOMAIN paymentMethods :
      /\ paymentMethods[i].id = request.body.payment_method_id
      /\ paymentMethods[i].customer_id = request.body.customer_id
      /\ paymentMethods[i].is_active

(* C9: add-credit-card and add-standing-order succeed only when customer_id *)
(* names a stored, active customer.                                         *)
InstrumentNeedsCustomer ==
  (Succeeded("/add-credit-card") \/ Succeeded("/add-standing-order")) =>
    \E i \in DOMAIN customers :
      /\ customers[i].id = request.body.customer_id
      /\ customers[i].status = "active"

(* the Luhn sum of a digit sequence, every second digit from the right doubled *)
RECURSIVE LuhnSum(_, _)
LuhnSum(digits, double) ==
  IF digits = <<>> THEN 0
  ELSE LET d == digits[Len(digits)]
           v == IF double THEN (IF 2 * d > 9 THEN 2 * d - 9 ELSE 2 * d) ELSE d
       IN  v + LuhnSum(SubSeq(digits, 1, Len(digits) - 1), ~double)

ValidCardNumber(digits) ==
  /\ Len(digits) \in 12 .. 19
  /\ LuhnSum(digits, FALSE) % 10 = 0

(* C10: a payment method is stored only for a card number that passes the   *)
(* length and Luhn checks; a number that fails them is answered with a      *)
(* failure.                                                                 *)
CardStoredOnlyIfValid ==
  Succeeded("/add-credit-card") => ValidCardNumber(request.body.card_number)

-----------------------------------------------------------------------------
(* The agreement a request names by recurring_id, before and after a step *)

Named(agreements, recurring_id) ==
  {i \in DOMAIN agreements : agreements[i].id = recurring_id}

Asks(req, path) ==
  /\ req.path = path
  /\ req.method = "POST"
  /\ "recurring_id" \in DOMAIN req.body

(* a date string read as a day number, to compare dates *)
DayOf(d) == NewDate(d).day

(* C11: create-recurring succeeds only for a start date that parses and is   *)
(* not after the end date, when one is given; otherwise nothing is stored.  *)
AgreementNeedsDateRange ==
  Succeeded("/create-recurring") =>
    /\ IsIsoDate(request.body.start_date)
    /\ request.body.end_date # <<>> =>
         DayOf(request.body.start_date) <= DayOf(request.body.end_date)

(* C12: a pause request on an active agreement succeeds and leaves it       *)
(* paused, a resume request on a paused agreement succeeds and leaves it    *)
(* active; from any other state the request fails and changes nothing; and  *)
(* neither request creates a payment record or changes next_payment_date.   *)
PauseResumeLifecycle ==
  [][\A i \in DOMAIN recurringPayments :
       /\ ( /\ Asks(request', "/pause-recurring")
            /\ recurringPayments[i].id = request'.body.recurring_id ) =>
            /\ payments' = payments
            /\ recurringPayments'[i].next_payment_date
                 = recurringPayments[i].next_payment_date
            /\ IF recurringPayments[i].status = "active"
               THEN /\ response'.statusCode = 200
                    /\ recurringPayments'[i].status = "paused"
               ELSE /\ response'.statusCode # 200
                    /\ recurringPayments' = recurringPayments
       /\ ( /\ Asks(request', "/resume-recurring")
            /\ recurringPayments[i].id = request'.body.recurring_id ) =>
            /\ payments' = payments
            /\ recurringPayments'[i].next_payment_date
                 = recurringPayments[i].next_payment_date
            /\ IF recurringPayments[i].status = "paused"
               THEN /\ response'.statusCode = 200
                    /\ recurringPayments'[i].status = "active"
               ELSE /\ response'.statusCode # 200
                    /\ recurringPayments' = recurringPayments]_vars

(* C13: a roll-forward request fails on an agreement that is not active; on *)
(* an active one it either completes the agreement and appends no payment   *)
(* record (the new due date would pass end_date), or moves next_payment_date *)
(* later and appends exactly one pending payment record.                    *)
RollForwardLifecycle ==
  [][\A i \in DOMAIN recurringPayments :
       ( /\ Asks(request', "/roll-forward")
         /\ recurringPayments[i].id = request'.body.recurring_id ) =>
         IF recurringPayments[i].status # "active"
         THEN /\ response'.statusCode # 200
              /\ recurringPayments' = recurringPayments
              /\ payments' = payments
         ELSE \/ /\ recurringPayments[i].end_date # <<>>
                 /\ recurringPayments'[i].status = "completed"
                 /\ payments' = payments
              \/ /\ recurringPayments'[i].status = "active"
                 /\ DayOf(recurringPayments'[i].next_payment_date)
                      > DayOf(recurringPayments[i].next_payment_date)
                 /\ Len(payments') = Len(payments) + 1
                 /\ SubSeq(payments', 1, Len(payments)) = payments
                 /\ payments'[Len(payments')].status = "pending"]_vars

(* the fields a route requires, and whether a POST request lacks one *)
Required(path) ==
  CASE path = "/register" -> {"parent_name", "phone", "child_name"}
    [] path = "/add-credit-card" ->
         {"customer_id", "card_number", "card_holder_name", "expiry_month",
          "expiry_year"}
    [] path = "/add-standing-order" ->
         {"customer_id", "bank_code", "branch_code", "account_number",
          "account_holder_name"}
    [] path = "/create-recurring" ->
         {"customer_id", "payment_method_id", "start_date"}
    [] path = "/payment-methods" -> {"customer_id"}
    [] path = "/payment-history" -> {"customer_id"}
    [] path = "/cancel-recurring" -> {"recurring_id"}
    [] OTHER -> {}

(* an absent field: 0 for an id, "" for a name, <<>> for digits or a date *)
Absent(f, value) ==
  IF f \in {"customer_id", "payment_method_id", "recurring_id"} THEN value = 0
  ELSE IF f \in {"parent_name", "phone", "child_name", "card_holder_name",
                 "account_holder_name"} THEN value = ""
  ELSE value = <<>>

LacksRequired(req) ==
  /\ req.method = "POST"
  /\ Required(req.path) # {}
  /\ Required(req.path) \subseteq DOMAIN req.body
  /\ \E f \in Required(req.path) : Absent(f, req.body[f])

(* C14: a request that lacks a required field is answered with a failure    *)
(* (400, success false) and leaves customers, payment methods, agreements,  *)
(* payment records and the id counter as they were.                         *)
MissingFieldChangesNothing ==
  [][LacksRequired(request') =>
       /\ response'.statusCode = 400
       /\ response'.body.success = FALSE
       /\ store' = store]_vars

(* an agreement is stored and the last request, a create-recurring without  *)
(* start_date, was refused                                                  *)
RefusedCreateAfterAgreement ==
  /\ request.path = "/create-recurring"
  /\ request.body.start_date = <<>>
  /\ response.statusCode = 400
  /\ Len(recurringPayments) >= 1

(* C15: a cancel request that names no stored agreement is not answered     *)
(* with success, and changes no agreement.                                  *)
CancelUnknownIsNotFound ==
  ( /\ Asks(request, "/cancel-recurring")
    /\ request.body.recurring_id # 0
    /\ Named(recurringPayments, request.body.recurring_id) = {} ) =>
    /\ response.statusCode # 200
    /\ "success" \in DOMAIN response.body => ~response.body.success

(* C16: the ledger only grows: across every step the payment records that   *)
(* were there stay, in place and unchanged, and every record is pending.    *)
LedgerAppendOnly ==
  [][/\ Len(payments') >= Len(payments)
     /\ SubSeq(payments', 1, Len(payments)) = payments
     /\ \A j \in DOMAIN payments' : payments'[j].status = "pending"]_vars

(* two payment records are stored and the last request cancelled the        *)
(* agreement of one of them                                                 *)
CancelledWithTwoRecords ==
  /\ Succeeded("/cancel-recurring")
  /\ Len(payments) >= 2
  /\ \E i \in Named(recurringPayments, request.body.recurring_id) :
       recurringPayments[i].status = "cancelled"

(* d advanced by k calendar months, the day clamped to the month's length *)
MonthsLater(d, k) ==
  LET y == d[1] + ((d[2] - 1 + k) \div 12)
      m == ((d[2] - 1 + k) % 12) + 1
  IN  <<y, m, Min(d[3], DaysInMonth(y, m - 1))>>

Terminal(r) == r.status \in {"cancelled", "completed"}

(* the next payment date of r lies after its start date, a whole number of  *)
(* months later                                                             *)
WholeMonthsAfterStart(r) ==
  /\ DayOf(r.next_payment_date) > DayOf(r.start_date)
  /\ \E k \in 1 .. 12 : r.next_payment_date = MonthsLater(r.start_date, k)

(* C17: every agreement that is not cancelled or completed has a            *)
(* next_payment_date later than its start_date that is the start_date       *)
(* advanced by a whole number of months, and no request moves an            *)
(* agreement's next_payment_date to an earlier date.                        *)
NextDueWholeMonths ==
  [][/\ \A i \in DOMAIN recurringPayments' :
          ~Terminal(recurringPayments'[i]) =>
            WholeMonthsAfterStart(recurringPayments'[i])
     /\ \A i \in DOMAIN recurringPayments :
          /\ i \in DOMAIN recurringPayments'
          /\ DayOf(recurringPayments'[i].next_payment_date)
               >= DayOf(recurringPayments[i].next_payment_date)]_vars

(* C18: every stored agreement has a positive amount, the amount supplied   *)
(* or the monthly fee when none is, and its first payment record carries    *)
(* the same amount.                                                         *)
AmountPositive ==
  /\ \A i \in DOMAIN recurringPayments : recurringPayments[i].amount > 0
  /\ Succeeded("/create-recurring") =>
       LET r == recurringPayments[Len(recurringPayments)]
       IN  /\ r.amount = IF request.body.amount = 0 THEN MONTHLY_AMOUNT
                         ELSE request.body.amount
           /\ payments[Len(payments)].amount = r.amount

(* C19: a cancelled agreement stays cancelled across every request, and a   *)
(* cancel request changes nothing but the status of the agreement it names. *)
CancelledIsTerminal ==
  [][/\ \A i \in DOMAIN recurringPayments :
          recurringPayments[i].status = "cancelled" =>
            /\ i \in DOMAIN recurringPayments'
            /\ recurringPayments'[i] = recurringPayments[i]
     /\ Asks(request', "/cancel-recurring") =>
          /\ <<customers', paymentMethods', payments', idCounter'>>
               = <<customers, paymentMethods, payments, idCounter>>
          /\ DOMAIN recurringPayments' = DOMAIN recurringPayments
          /\ \A i \in DOMAIN recurringPayments :
               /\ [recurringPayments'[i] EXCEPT !.status = "cancelled"]
                    = [recurringPayments[i] EXCEPT !.status = "cancelled"]
               /\ recurringPayments[i].id # request'.body.recurring_id =>
                    recurringPayments'[i] = recurringPayments[i]]_vars

(* one agreement is cancelled, and the last request created another one     *)
CreatedAfterCancel ==
  /\ Succeeded("/create-recurring")
  /\ \E i, j \in DOMAIN recurringPayments :
       /\ i < j
       /\ recurringPayments[i].status = "cancelled"
       /\ recurringPayments[j].status = "active"

(* the ids of the stored entities *)
IdsOf(entities) == {entities[i].id : i \in DOMAIN entities}

StoredIds ==
  IdsOf(customers) \cup IdsOf(paymentMethods) \cup IdsOf(recurringPayments)
    \cup IdsOf(payments)

(* how many stored entities there are *)
StoredCount ==
  Len(customers) + Len(paymentMethods) + Len(recurringPayments) + Len(payments)

Increasing(entities) ==
  \A i \in DOMAIN entities : i > 1 => entities[i - 1].id < entities[i].id

(* the id a success response returns is the id of the entity last stored *)
ReturnedIdNamesOne ==
  /\ Succeeded("/register") =>
       customers[Len(customers)].id = response.body.customer_id
  /\ (Succeeded("/add-credit-card") \/ Succeeded("/add-standing-order")) =>
       paymentMethods[Len(paymentMethods)].id = response.body.method_id
  /\ Succeeded("/create-recurring") =>
       recurringPayments[Len(recurringPayments)].id = response.body.recurring_id

(* no two stored entities share an id (as many ids as entities), each       *)
(* collection's ids increase, all lie below idCounter, and a returned id    *)
(* names a stored entity, so exactly one                                    *)
IdsDistinct ==
  LET ids == StoredIds
  IN  /\ Cardinality(ids) = StoredCount
      /\ ids \subseteq 1 .. (idCounter - 1)
      /\ Increasing(customers)
      /\ Increasing(paymentMethods)
      /\ Increasing(recurringPayments)
      /\ Increasing(payments)
      /\ ReturnedIdNamesOne

(* C20: after every request no two stored entities share an id, every id a  *)
(* response returns names exactly one stored entity, and ids are handed out *)
(* in strictly increasing order: idCounter never decreases and every newly  *)
(* stored id is at least the idCounter before the request, so above all     *)
(* earlier ids.                                                             *)
IdsUnique ==
  [][LET before == StoredIds
         after  == StoredIds'
     IN  /\ IdsDistinct'
         /\ idCounter' >= idCounter
         /\ before \subseteq after
         /\ \A id \in after \ before : id >= idCounter]_vars

(* a customer, a payment method, an agreement and its payment record are    *)
(* stored                                                                   *)
OneOfEachStored ==
  /\ Len(customers) >= 1
  /\ Len(paymentMethods) >= 1
  /\ Len(recurringPayments) >= 1
  /\ Len(payments) >= 1

(* C21: a request answered with a non-success response (400, 404 or 500)    *)
(* leaves customers, paymentMethods, recurringPayments, payments and        *)
(* idCounter exactly as they were before the request.                       *)
FailedRequestChangesNothing ==
  [][response'.statusCode \in {400, 404, 500} => store' = store]_vars

====
